---- MODULE Spec2Model ----
(***************************************************************************)
(* A model of speech_buckets.py: the line classifier                       *)
(* (is_speaker_name, is_speaker_annotated, parse_transcription_line) as    *)
(* operators over strings, and TranscriptionParser (start,                 *)
(* process_transcription) as a state machine over a small file system.     *)
(*                                                                         *)
(* A Python str is a sequence of one-character strings.  Python indices    *)
(* are 0-based: At(s, i) is s[i], Slice(s, a, b) is s[a:b].  An object     *)
(* that may be None is a sequence of length <= 1: None is << >> and a      *)
(* value v is << v >>.                                                     *)
(***************************************************************************)
EXTENDS Integers, Sequences, FiniteSets, TLC

VARIABLES
    pc,              \* where the program is
    line,            \* the line last read (the classifier's input)
    result,          \* what parse_transcription_line did with it
    name_test,       \* what is_speaker_name said of `line`, once asked
    target_dir,      \* self.target_dir
    target_file,     \* self.target_file
    entries,         \* names os.listdir has still to yield
    filename,        \* the transcript process_transcription is working on
    bucket_path,     \* its local bucket_path
    file_handles,    \* its local file_handles: speaker -> path of the open file
    output_file,     \* its local output_file: None or the path written to
    line_number,     \* its local line_number
    files_processed, \* self.files_processed
    files_created,   \* self.files_created
    fs,              \* the output directory: path -> the strings written
    open_sinks,      \* bucket files opened and not yet closed
    stdout,          \* what print() has written
    exc,             \* the exception that is propagating, "None" if none
    history,         \* the lines of this transcript whose handling completed
    created_before,  \* files_created when this transcript was begun
    sinks_of         \* transcript name -> the paths it opened with 'w'

vars == <<pc, line, result, name_test, target_dir, target_file, entries,
          filename, bucket_path, file_handles, output_file, line_number,
          files_processed, files_created, fs, open_sinks, stdout, exc,
          history, created_before, sinks_of>>

----------------------------------------------------------------------------
(* Bounds *)

\* Longest candidate token the classifier is tried on.
MaxTokLen == 4

\* Most lines a transcript holds.
MaxLines == 3

----------------------------------------------------------------------------
(* Python values *)

None == << >>

Some(v) == << v >>

\* Python's truth value of an Optional[str]: None and '' are false.
Truthy(o) == o # None /\ o[1] # << >>

----------------------------------------------------------------------------
(* Characters.  "Lo" stands for one alphabetic character without case      *)
(* (Unicode category Lo, such as a CJK ideograph): str.isalpha accepts it  *)
(* and str.isupper ignores it.                                             *)

Upper == {"A", "B"}

Lower == {"a", "b", "q", "x", "y", "z"}

Uncased == {"Lo"}

Alpha == Upper \cup Lower \cup Uncased

Whitespace == {" ", "\t", "\n", "\r"}

----------------------------------------------------------------------------
(* str methods *)

At(s, i) == s[i + 1]

Last(s) == s[Len(s)]

Slice(s, a, b) == SubSeq(s, a + 1, b)

\* c in s
In(c, s) == \E i \in 1..Len(s) : s[i] = c

\* sub in s
Contains(s, sub) ==
    \E i \in 0..(Len(s) - Len(sub)) : Slice(s, i, i + Len(sub)) = sub

\* s.index(sub), for a sub that occurs in s
index(s, sub) ==
    CHOOSE i \in 0..(Len(s) - Len(sub)) :
        /\ Slice(s, i, i + Len(sub)) = sub
        /\ \A j \in 0..(i - 1) : Slice(s, j, j + Len(sub)) # sub

\* s.rindex(sub), for a sub that occurs in s
rindex(s, sub) ==
    CHOOSE i \in 0..(Len(s) - Len(sub)) :
        /\ Slice(s, i, i + Len(sub)) = sub
        /\ \A j \in (i + 1)..(Len(s) - Len(sub)) : Slice(s, j, j + Len(sub)) # sub

\* s.count(c)
count(s, c) == Cardinality({i \in 1..Len(s) : s[i] = c})

\* s.replace(c, '')
RECURSIVE remove(_, _)
remove(s, c) ==
    IF s = << >> THEN << >>
    ELSE IF Head(s) = c THEN remove(Tail(s), c)
    ELSE <<Head(s)>> \o remove(Tail(s), c)

\* s.isalpha(): non-empty and every character alphabetic
isalpha(s) == s # << >> /\ \A i \in 1..Len(s) : s[i] \in Alpha

\* s.isupper(): at least one cased character and no lower-case one
isupper(s) ==
    /\ \E i \in 1..Len(s) : s[i] \in Upper
    /\ \A i \in 1..Len(s) : s[i] \notin Lower

RECURSIVE lstrip(_)
lstrip(s) ==
    IF s # << >> /\ Head(s) \in Whitespace THEN lstrip(Tail(s)) ELSE s

RECURSIVE rstrip(_)
rstrip(s) ==
    IF s # << >> /\ Last(s) \in Whitespace
    THEN rstrip(SubSeq(s, 1, Len(s) - 1)) ELSE s

\* Mutant of strip: only the line terminator's side is trimmed (rstrip).
strip_trailing_only(s) == rstrip(s)

\* s.strip()
strip(s) == rstrip(lstrip(s))

----------------------------------------------------------------------------
(* The line classifier *)

\* Mutant of is_speaker_name: the isupper() test is left out.
is_speaker_name_any_case(text) ==
    IF isalpha(text) THEN TRUE
    ELSE IF In("'", text) /\ count(text, "'") = 1
         THEN isalpha(remove(text, "'"))
         ELSE FALSE

is_speaker_name(text) ==
    IF isupper(text)
    THEN IF isalpha(text) THEN TRUE
         ELSE IF In("'", text) /\ count(text, "'") = 1
              THEN isalpha(remove(text, "'"))
              ELSE FALSE
    ELSE FALSE

\* "True", "False", "None" (the function falls off its end when the speaker
\* holds no space) or "IndexError" (speaker[space_index + 1] past the end).
is_speaker_annotated(speaker) ==
    IF In(" ", speaker)
    THEN LET space_index == index(speaker, <<" ">>)
         IN  IF space_index + 1 >= Len(speaker) THEN "IndexError"
             ELSE LET opening_punc == At(speaker, space_index + 1)
                      closing_punc == Last(speaker)
                  IN  IF /\ (opening_punc = "(" \/ opening_punc = "[")
                         /\ (closing_punc = ")" \/ closing_punc = "]")
                      THEN "True"
                      ELSE "False"
    ELSE "None"

\* What a call returns: the tuple (speaker, words), or the exception raised.
Return(speaker, words) == [exc |-> "None", speaker |-> speaker, words |-> words]

Raise(e) == [exc |-> e, speaker |-> None, words |-> None]

parse_transcription_line(raw) ==
    LET stripped == strip(raw)
        no_speaker == Return(None, Some(stripped))
    IN  IF \/ stripped = << >>
           \/ (At(stripped, 0) = "[" /\ Last(stripped) = "]")
           \/ (At(stripped, 0) = "(" /\ Last(stripped) = ")")
        THEN Return(None, None)
        ELSE IF Contains(stripped, <<":", " ">>)
        THEN LET space_index == index(stripped, <<" ">>)
                 col_index == index(stripped, <<":", " ">>)
                 speaker_part == Slice(stripped, 0, col_index)
                 spoken_part == Slice(stripped, col_index + 2, Len(stripped))
                 annotated == is_speaker_annotated(speaker_part)
                 short_part == Slice(stripped, 0, space_index)
             IN  IF col_index # 0
                 THEN IF is_speaker_name(speaker_part)
                      THEN Return(Some(speaker_part), Some(spoken_part))
                      ELSE IF space_index < col_index
                      THEN IF annotated = "IndexError" THEN Raise("IndexError")
                           ELSE IF annotated = "True" /\ is_speaker_name(short_part)
                           THEN Return(Some(short_part), Some(spoken_part))
                           ELSE no_speaker
                      ELSE no_speaker
                 ELSE no_speaker
        ELSE no_speaker

\* The three result shapes of the classifier, and the fourth outcome.
Kind(r) ==
    IF r.exc # "None" THEN "Raised"
    ELSE IF r.words = None THEN "Discard"
    ELSE IF r.speaker = None THEN "Continuation"
    ELSE "NewSpeaker"

----------------------------------------------------------------------------
(* The classifier on its own: one line in, one result out. *)

\* Candidate tokens are written over these characters.
TokChar == {"A", "a", "Lo", "'", " ", "[", "]", "(", ")"}

RECURSIVE Strings(_, _)
Strings(chars, n) ==
    IF n = 0 THEN {<< >>}
    ELSE LET shorter == Strings(chars, n - 1)
         IN  shorter \cup {Append(s, c) : s \in shorter, c \in chars}

Tokens == Strings(TokChar, MaxTokLen)

\* What follows the token on its line.
Tails ==
    { << >>,
      <<":", " ", "x">>,
      <<":", " ", "x", "\n">>,
      <<":", " ">>,
      <<":", "x">> }

Lines == {tok \o tail : tok \in Tokens, tail \in Tails}

NoResult == Raise("NotCalled")

\* The writer's variables while only the classifier runs.
WriterIdle ==
    /\ target_dir = << >> /\ target_file = << >> /\ entries = {}
    /\ filename = None /\ bucket_path = << >> /\ file_handles = << >>
    /\ output_file = None /\ line_number = 0
    /\ files_processed = 0 /\ files_created = 0
    /\ fs = << >> /\ open_sinks = {} /\ stdout = << >> /\ exc = "None"
    /\ history = << >> /\ created_before = 0 /\ sinks_of = << >>

writer_vars == <<target_dir, target_file, entries, filename, bucket_path,
                 file_handles, output_file, line_number, files_processed,
                 files_created, fs, open_sinks, stdout, exc, history,
                 created_before, sinks_of>>

InitClassify ==
    /\ pc = "line"
    /\ line \in Lines
    /\ result = NoResult
    /\ name_test = "NotCalled"
    /\ WriterIdle

\* speaker, words = parse_transcription_line(line)
ParseLine ==
    /\ pc = "line"
    /\ result' = parse_transcription_line(line)
    /\ pc' = "parsed"
    /\ UNCHANGED <<line, name_test, writer_vars>>

\* is_speaker_name(line), the line taken as a token
TestName ==
    /\ pc = "line"
    /\ name_test' = IF is_speaker_name(line) THEN "True" ELSE "False"
    /\ pc' = "tested"
    /\ UNCHANGED <<line, result, writer_vars>>

NextClassify == ParseLine \/ TestName

SpecClassify == InitClassify /\ [][NextClassify]_vars

----------------------------------------------------------------------------
(* TranscriptionParser *)

\* One print(): the format's text and what fills its %d and %s.
Message(text, n, m, str) == [msg |-> text, n |-> n, m |-> m, s |-> str]

DEFAULT_OUTPUT_DIR == <<"b", "u", "c", "k", "e", "t", "s">>

DEFAULT_OUTPUT_PREFIX == << >>

CRLF == <<"\r", "\n">>

\* The target directory: two transcripts that differ in their extension, a
\* file whose name holds no '.', and the output directory itself.
ATxt == <<"a", ".", "t", "x", "t">>

ALog == <<"a", ".", "l", "o", "g">>

Notes == <<"n", "o", "t", "e", "s">>

Directory == {ATxt, ALog, Notes, DEFAULT_OUTPUT_DIR}

\* os.path.isfile
isfile(name) == name # DEFAULT_OUTPUT_DIR

\* The lines a transcript is read from.
LinePool ==
    { <<"A", ":", " ", "x", "\n">>,
      <<"B", ":", " ", "y", "\n">>,
      <<"z", "\n">>,
      <<"[", "q", "]", "\n">>,
      <<"a", " ", ":", " ", "b", "\n">> }

\* f with key k set to v, k added to its domain if need be
Put(f, k, v) == [x \in DOMAIN f \cup {k} |-> IF x = k THEN v ELSE f[x]]

Range(f) == {f[x] : x \in DOMAIN f}

\* '%s_%s.txt' % (bucket_path, speaker); every bucket lies in output_dir
SinkPath(path, speaker) == path \o <<"_">> \o speaker \o <<".", "t", "x", "t">>

\* self.output_prefix + filename[:filename.rindex('.')]
BucketPath(name) == DEFAULT_OUTPUT_PREFIX \o Slice(name, 0, rindex(name, <<".">>))

\* Mutant of MissedSpeaker: the line is numbered from 0.
MissedSpeaker_zero_based(number, words) ==
    Message("Missed speaker for line", number - 1, 0, words)

\* 'Missed speaker for line %d: %s' % (line_number, words)
MissedSpeaker(number, words) == Message("Missed speaker for line", number, 0, words)

\* Mutant of OpensBucket: the `speaker not in file_handles` test is left out.
OpensBucket_every_time(speaker, words, handles) ==
    Truthy(words) /\ Truthy(speaker)

\* Whether this line makes the loop body open a bucket: a speaker not seen yet.
OpensBucket(speaker, words, handles) ==
    Truthy(words) /\ Truthy(speaker) /\ speaker[1] \notin DOMAIN handles

\* Mutant of GrabOutputFile: the output file is grabbed only while none is set.
GrabOutputFile_first_only(speaker, words, handles, current) ==
    IF Truthy(words) /\ Truthy(speaker) /\ speaker[1] \in DOMAIN handles
       /\ current = None
    THEN Some(handles[speaker[1]])
    ELSE current

\* output_file after the `if speaker:` block, given file_handles after it.
GrabOutputFile(speaker, words, handles, current) ==
    IF Truthy(words) /\ Truthy(speaker) /\ speaker[1] \in DOMAIN handles
    THEN Some(handles[speaker[1]])
    ELSE current

\* __init__: the target is missing, a directory, or a file in a directory.
Init ==
    /\ pc = "start"
    /\ \E kind \in {"missing", "dir", "file"} :
          /\ target_dir = IF kind = "missing" THEN << >> ELSE <<"d">>
          /\ target_file \in IF kind = "file" THEN {ATxt, Notes} ELSE {<< >>}
          /\ stdout = IF kind = "missing"
                      THEN <<Message("File does not exist!", 0, 0, <<"d">>)>>
                      ELSE << >>
    /\ files_processed = 0 /\ files_created = 0
    /\ line = << >> /\ result = NoResult /\ name_test = "NotCalled"
    /\ entries = {} /\ filename = None /\ bucket_path = << >>
    /\ file_handles = << >> /\ output_file = None /\ line_number = 0
    /\ fs = << >> /\ open_sinks = {} /\ exc = "None"
    /\ history = << >> /\ created_before = 0 /\ sinks_of = << >>

\* start(), up to the first transcript
Start ==
    /\ pc = "start"
    /\ IF target_dir = << >> /\ target_file = << >>
       THEN /\ pc' = "returned"
            /\ UNCHANGED <<entries, stdout>>
       ELSE /\ pc' = "listing"
            /\ entries' = IF target_file = << >> THEN Directory ELSE {target_file}
            /\ stdout' = stdout
                  \o <<Message("Creating output directory", 0, 0, DEFAULT_OUTPUT_DIR)>>
                  \o IF target_file = << >>
                     THEN <<Message("Processing files in", 0, 0, target_dir)>>
                     ELSE << >>
    /\ UNCHANGED <<line, result, name_test, target_dir, target_file, filename,
                   bucket_path, file_handles, output_file, line_number,
                   files_processed, files_created, fs, open_sinks, exc,
                   history, created_before, sinks_of>>

\* The directory loop meets a name that is no file.
SkipEntry(name) ==
    /\ pc = "listing"
    /\ name \in entries
    /\ target_file = << >>
    /\ ~isfile(name)
    /\ entries' = entries \ {name}
    /\ UNCHANGED <<pc, line, result, name_test, target_dir, target_file,
                   filename, bucket_path, file_handles, output_file,
                   line_number, files_processed, files_created, fs,
                   open_sinks, stdout, exc, history, created_before, sinks_of>>

\* process_transcription, up to the first line: the bucket path, the locals,
\* open(filepath, 'r').  rindex raises ValueError on a name with no '.';
\* open raises OSError (here TranscriptOpenError) when readable is false.
OpenTranscript(name, readable) ==
    /\ pc = "listing"
    /\ name \in entries
    /\ target_file # << >> \/ isfile(name)
    /\ entries' = entries \ {name}
    /\ filename' = Some(name)
    /\ stdout' = Append(stdout, Message("Processing file", 0, 0, name))
    /\ file_handles' = << >>
    /\ output_file' = None
    /\ line_number' = 0
    /\ history' = << >>
    /\ created_before' = files_created
    /\ bucket_path' = IF In(".", name) THEN BucketPath(name) ELSE bucket_path
    /\ sinks_of' = IF In(".", name) THEN Put(sinks_of, name, {}) ELSE sinks_of
    /\ exc' = IF ~In(".", name) THEN "ValueError"
              ELSE IF ~readable THEN "TranscriptOpenError"
              ELSE "None"
    /\ pc' = IF exc' = "None" THEN "reading" ELSE "crashed"
    /\ UNCHANGED <<line, result, name_test, target_dir, target_file,
                   files_processed, files_created, fs, open_sinks>>

\* One turn of `for line in speech_file`.  open(..., 'w') raises OSError (here
\* SinkOpenError) when can_open is false, write raises it (SinkWriteError)
\* when can_write is false; nothing catches either, nor the classifier's
\* IndexError, so the file handles stay open.
HandleLine(text, can_open, can_write) ==
    /\ pc = "reading"
    /\ line_number < MaxLines
    /\ \E parsed \in {parse_transcription_line(text)} :
       LET speaker == parsed.speaker
           words == parsed.words
           opens == OpensBucket(speaker, words, file_handles)
           path == SinkPath(bucket_path, speaker[1])
           open_fails == opens /\ ~can_open
           handles == IF opens /\ can_open
                      THEN Put(file_handles, speaker[1], path)
                      ELSE file_handles
           truncated == IF opens /\ can_open THEN Put(fs, path, << >>) ELSE fs
           out == IF open_fails THEN output_file
                  ELSE GrabOutputFile(speaker, words, handles, output_file)
           writes == Truthy(words) /\ ~open_fails /\ out # None
           missed == Truthy(words) /\ ~open_fails /\ out = None
           raised == IF parsed.exc # "None" THEN parsed.exc
                     ELSE IF open_fails THEN "SinkOpenError"
                     ELSE IF writes /\ ~can_write THEN "SinkWriteError"
                     ELSE "None"
       IN  /\ line' = text
           /\ result' = parsed
           /\ line_number' = line_number + 1
           /\ file_handles' = handles
           /\ files_created' = IF opens /\ can_open
                               THEN files_created + 1 ELSE files_created
           /\ open_sinks' = IF opens /\ can_open
                            THEN open_sinks \cup {path} ELSE open_sinks
           /\ sinks_of' = IF opens /\ can_open
                          THEN [sinks_of EXCEPT ![filename[1]] = @ \cup {path}]
                          ELSE sinks_of
           /\ output_file' = out
           /\ fs' = IF writes /\ can_write
                    THEN [truncated EXCEPT ![out[1]] = Append(@, words[1] \o CRLF)]
                    ELSE truncated
           /\ stdout' = IF missed
                        THEN Append(stdout, MissedSpeaker(line_number + 1, words[1]))
                        ELSE stdout
           /\ exc' = raised
           /\ pc' = IF raised = "None" THEN "reading" ELSE "crashed"
           /\ history' = IF raised = "None" THEN Append(history, text) ELSE history
    /\ UNCHANGED <<name_test, target_dir, target_file, entries, filename,
                   bucket_path, files_processed, created_before>>

\* Reading the next line fails (an I/O or decoding error): the with block
\* closes the transcript, the exception leaves process_transcription.
ReadError ==
    /\ pc = "reading"
    /\ exc' = "TranscriptReadError"
    /\ pc' = "crashed"
    /\ UNCHANGED <<line, result, name_test, target_dir, target_file, entries,
                   filename, bucket_path, file_handles, output_file,
                   line_number, files_processed, files_created, fs,
                   open_sinks, stdout, history, created_before, sinks_of>>

\* End of file: close every handle, count the transcript.
CloseTranscript ==
    /\ pc = "reading"
    /\ open_sinks' = open_sinks \ Range(file_handles)
    /\ files_processed' = files_processed + 1
    /\ pc' = "listing"
    /\ UNCHANGED <<line, result, name_test, target_dir, target_file, entries,
                   filename, bucket_path, file_handles, output_file,
                   line_number, files_created, fs, stdout, exc, history,
                   created_before, sinks_of>>

\* start(), after the last transcript
Finish ==
    /\ pc = "listing"
    /\ entries = {}
    /\ stdout' = Append(stdout,
                        Message("Finished!", files_processed, files_created, << >>))
    /\ pc' = "returned"
    /\ UNCHANGED <<line, result, name_test, target_dir, target_file, entries,
                   filename, bucket_path, file_handles, output_file,
                   line_number, files_processed, files_created, fs,
                   open_sinks, exc, history, created_before, sinks_of>>

Next ==
    \/ Start
    \/ \E name \in Directory : SkipEntry(name)
    \/ \E name \in Directory, readable \in BOOLEAN : OpenTranscript(name, readable)
    \/ \E text \in LinePool, can_open \in BOOLEAN, can_write \in BOOLEAN :
          HandleLine(text, can_open, can_write)
    \/ ReadError
    \/ CloseTranscript
    \/ Finish

Spec == Init /\ [][Next]_vars

----------------------------------------------------------------------------
(* Properties of the classifier, under SpecClassify *)

ResultShapes == {"NewSpeaker", "Continuation", "Discard"}

\* C1: every line is classified as NewSpeaker, Continuation or Discard;
\* parse_transcription_line never raises.
C1_ClassifierTotal == pc = "parsed" => Kind(result) \in ResultShapes

\* The text before the first ": " of the trimmed line.
CandidateToken(raw) == Slice(strip(raw), 0, index(strip(raw), <<":", " ">>))

\* The character after the token's first space opens an annotation and the
\* token's last character is the symbol that closes it.
AnnotationMatches(token) ==
    \E i \in 1..(Len(token) - 1) :
        /\ token[i] = " "
        /\ \A j \in 1..(i - 1) : token[j] # " "
        /\ \/ (token[i + 1] = "(" /\ token[Len(token)] = ")")
           \/ (token[i + 1] = "[" /\ token[Len(token)] = "]")

\* C6: a candidate token that holds a space names a speaker only if its
\* annotation opens with ( and ends with ), or opens with [ and ends with ].
C6_AnnotationPairMatches ==
    (pc = "parsed" /\ Kind(result) = "NewSpeaker" /\ In(" ", CandidateToken(line)))
        => AnnotationMatches(CandidateToken(line))

Apostrophes(t) == {i \in 1..Len(t) : t[i] = "'"}

\* A Speaker Name as the data model describes it.
DescribedName(t) ==
    /\ Len(t) > 0
    /\ Cardinality(Apostrophes(t)) <= 1
    /\ t[1] # "'"
    /\ \A i \in (1..Len(t)) \ Apostrophes(t) : t[i] \in Upper

\* A Speaker Name as accepted: the apostrophe may stand anywhere, the other
\* characters are letters, none of them lower-case, one of them upper-case.
AcceptedName(t) ==
    /\ Len(t) > 0
    /\ Cardinality(Apostrophes(t)) <= 1
    /\ \A i \in (1..Len(t)) \ Apostrophes(t) : t[i] \in Alpha \ Lower
    /\ \E i \in 1..Len(t) : t[i] \in Upper

\* C7 as stated: every speaker of a NewSpeaker result is a described name
\* (no apostrophe at position 0, every other character upper-case).
C7_DescribedNamesOnly ==
    (pc = "parsed" /\ Kind(result) = "NewSpeaker") => DescribedName(result.speaker[1])

\* C7 as amended: every speaker of a NewSpeaker result is an accepted name,
\* and is_speaker_name says True of a token exactly when it is one.
C7_AcceptedNamesOnly ==
    /\ (pc = "parsed" /\ Kind(result) = "NewSpeaker") => AcceptedName(result.speaker[1])
    /\ pc = "tested" => (name_test = "True" <=> AcceptedName(line))

\* A NewSpeaker result whose name begins with its apostrophe.
C7_Witness ==
    /\ pc = "parsed"
    /\ Kind(result) = "NewSpeaker"
    /\ result.speaker[1][1] = "'"

HasColonSpace(s) == \E i \in 1..(Len(s) - 1) : s[i] = ":" /\ s[i + 1] = " "

Ink(s) == {i \in 1..Len(s) : s[i] \notin Whitespace}

FirstInk(s) == s[CHOOSE i \in Ink(s) : \A j \in Ink(s) : i <= j]

LastInk(s) == s[CHOOSE i \in Ink(s) : \A j \in Ink(s) : i >= j]

\* t is s without its leading and trailing whitespace.
IsTrimOf(t, s) ==
    IF Ink(s) = {} THEN t = << >>
    ELSE /\ t # << >>
         /\ t[1] \notin Whitespace
         /\ t[Len(t)] \notin Whitespace
         /\ \E a \in 0..Len(s) :
               /\ a + Len(t) <= Len(s)
               /\ SubSeq(s, a + 1, a + Len(t)) = t
               /\ \A i \in 1..Len(s) :
                     (i <= a \/ i > a + Len(t)) => s[i] \in Whitespace

\* The whole trimmed line is wrapped in [ ] or in ( ).
IsAction(s) ==
    /\ Ink(s) # {}
    /\ \/ (FirstInk(s) = "[" /\ LastInk(s) = "]")
       \/ (FirstInk(s) = "(" /\ LastInk(s) = ")")

IsTrimmedContinuation(r, raw) ==
    /\ Kind(r) = "Continuation"
    /\ IsTrimOf(r.words[1], raw)

\* C8 as stated: a line without ": " that is not empty (not even once
\* trimmed) is a Continuation of the trimmed line.
C8_NoDelimiterIsContinuation ==
    (pc = "parsed" /\ Ink(line) # {} /\ ~HasColonSpace(line))
        => IsTrimmedContinuation(result, line)

\* C8 as amended: a line without ": " that is not blank after trimming and
\* is not an action line is a Continuation of the trimmed line.
C8_SpeechWithoutDelimiterIsContinuation ==
    (pc = "parsed" /\ Ink(line) # {} /\ ~IsAction(line) /\ ~HasColonSpace(line))
        => IsTrimmedContinuation(result, line)

\* A Continuation of a line that had whitespace on both sides.
C8_Witness ==
    /\ pc = "parsed"
    /\ ~HasColonSpace(line)
    /\ Len(line) >= 3
    /\ line[1] \in Whitespace
    /\ line[Len(line)] \in Whitespace
    /\ Kind(result) = "Continuation"
    /\ Len(result.words[1]) = Len(line) - 2

----------------------------------------------------------------------------
(* Properties of the bucket writer, under Spec *)

KindOf(text) == Kind(parse_transcription_line(text))

\* The speaker named by the last NewSpeaker line among the first i lines.
RECURSIVE SpeakerAt(_, _)
SpeakerAt(h, i) ==
    IF i = 0 THEN None
    ELSE IF KindOf(h[i]) = "NewSpeaker" THEN parse_transcription_line(h[i]).speaker
    ELSE SpeakerAt(h, i - 1)

\* What the first i lines owe to the bucket of speaker S, in input order.
RECURSIVE ExpectedBucket(_, _, _)
ExpectedBucket(h, S, i) ==
    IF i = 0 THEN << >>
    ELSE ExpectedBucket(h, S, i - 1)
         \o IF KindOf(h[i]) \in {"NewSpeaker", "Continuation"}
               /\ SpeakerAt(h, i) = Some(S)
            THEN <<parse_transcription_line(h[i]).words[1] \o CRLF>>
            ELSE << >>

SpeakersIn(h) ==
    {parse_transcription_line(h[i]).speaker[1] :
        i \in {j \in 1..Len(h) : KindOf(h[j]) = "NewSpeaker"}}

\* C2: of the lines handled so far, each speaker's bucket holds, in input
\* order, exactly its NewSpeaker lines and the Continuation lines that follow
\* them; while no exception has been raised there is one bucket per distinct
\* speaker and the transcript has created that many.
C2_BucketsHoldTheirSpeakersLines ==
    filename # None =>
        /\ \A S \in DOMAIN file_handles :
              fs[file_handles[S]] = ExpectedBucket(history, S, Len(history))
        /\ exc = "None" =>
              /\ DOMAIN file_handles = SpeakersIn(history)
              /\ files_created - created_before = Cardinality(SpeakersIn(history))

\* Speaker, continuation, second speaker: two buckets, the first of two lines.
C2_Witness ==
    /\ exc = "None"
    /\ Len(history) = 3
    /\ KindOf(history[1]) = "NewSpeaker"
    /\ KindOf(history[2]) = "Continuation"
    /\ KindOf(history[3]) = "NewSpeaker"
    /\ files_created - created_before = 2
    /\ \E S \in DOMAIN file_handles : Len(fs[file_handles[S]]) = 2

\* C3: a step that handles a Continuation line before any NewSpeaker line
\* prints one "Missed speaker" message with the line's 1-based position and
\* its text, and neither writes nor creates a bucket; a step that handles
\* any other line prints nothing.
C3_MissedSpeakerWarning ==
    [][line_number' = line_number + 1 =>
          IF Kind(result') = "Continuation" /\ SpeakerAt(history, Len(history)) = None
          THEN /\ stdout' = Append(stdout,
                       Message("Missed speaker for line", Len(history) + 1, 0,
                               result'.words[1]))
               /\ fs' = fs
               /\ file_handles' = file_handles
               /\ files_created' = files_created
               /\ open_sinks' = open_sinks
          ELSE stdout' = stdout]_vars

\* A warning for line 2, the line after a discarded one, and no bucket.
C3_Witness ==
    /\ pc = "reading"
    /\ Len(history) = 2
    /\ KindOf(history[1]) = "Discard"
    /\ KindOf(history[2]) = "Continuation"
    /\ stdout[Len(stdout)].msg = "Missed speaker for line"
    /\ stdout[Len(stdout)].n = 2
    /\ DOMAIN file_handles = {}

\* C4: outside process_transcription no bucket file is open.
C4_SinksClosedOnExit ==
    pc \in {"listing", "returned", "crashed"} => open_sinks = {}

\* C5: a transcript that cannot be opened or read does not stop the run.
C5_UnreadableTranscriptSkipped ==
    pc = "crashed" => exc \notin {"TranscriptOpenError", "TranscriptReadError"}

\* C9: no bucket file is opened by two transcripts of one run.
C9_SinksDisjoint ==
    \A f \in DOMAIN sinks_of, g \in DOMAIN sinks_of :
        f # g => sinks_of[f] \cap sinks_of[g] = {}

\* C10: a step that handles a NewSpeaker line without raising leaves the
\* output file that of the named speaker, whose bucket then exists, and adds
\* one to files_created exactly when the bucket did not exist before; a step
\* that handles a Continuation line after a NewSpeaker line appends its text
\* to the bucket of the last speaker named.
C10_NewSpeaker ==
    [][(line_number' = line_number + 1 /\ exc' = "None") =>
          /\ Kind(result') = "NewSpeaker" =>
                LET name == result'.speaker[1]
                IN  /\ name \in DOMAIN file_handles'
                    /\ output_file' = Some(file_handles'[name])
                    /\ SpeakerAt(history', Len(history')) = Some(name)
                    /\ files_created' =
                          files_created + IF name \in DOMAIN file_handles THEN 0 ELSE 1
                    /\ name \in DOMAIN file_handles =>
                          /\ file_handles' = file_handles
                          /\ fs' = [fs EXCEPT ![file_handles[name]] =
                                       Append(@, result'.words[1] \o CRLF)]
          /\ (Kind(result') = "Continuation" /\ SpeakerAt(history, Len(history)) # None) =>
                LET name == SpeakerAt(history, Len(history))[1]
                IN  /\ output_file = Some(file_handles[name])
                    /\ output_file' = output_file
                    /\ fs' = [fs EXCEPT ![file_handles[name]] =
                                 Append(@, result'.words[1] \o CRLF)]]_vars

\* Two speakers, then a continuation: it went to the second speaker's bucket.
C10_Witness ==
    /\ exc = "None"
    /\ Len(history) = 3
    /\ KindOf(history[1]) = "NewSpeaker"
    /\ KindOf(history[2]) = "NewSpeaker"
    /\ KindOf(history[3]) = "Continuation"
    /\ SpeakersIn(history) = {<<"A">>, <<"B">>}
    /\ Len(fs[file_handles[SpeakerAt(history, 2)[1]]]) = 2

====
